---------------------------- MODULE Spec2Model ----------------------------
(***************************************************************************)
(* PT-Gen (ptlgs/pt-gen-cfworker): the Node.js server (server.js) with its *)
(* request handler, in-memory KV cache, site adapters and the Douban       *)
(* proof-of-work challenge solver; and the worker-side copy of the solver  *)
(* (lib/douban_challenge.js).                                               *)
(*                                                                         *)
(* Strings are sequences of tokens (a token is one character or one        *)
(* indivisible word), so that concatenation is \o and two strings are      *)
(* equal exactly when their token sequences are.                           *)
(***************************************************************************)
EXTENDS Integers, Sequences, FiniteSets, TLC

VARIABLES
    memoryCache,   \* server.js: Map key -> {value, expiry}
    now,           \* Date.now() in ms
    env,           \* process.env: DISABLE_SEARCH, APIKEY
    task,          \* one cooperative task per inbound request
    nreq,          \* number of requests accepted so far
    pow,           \* one run of solveChallenge, nonce by nonce
    ident          \* one run of the url identification loop of handle

vars == <<memoryCache, now, env, task, nreq, pow, ident>>

----------------------------------------------------------------------------
(* Bounds of the model *)

MaxRequests == 2       \* requests accepted in one behaviour
MaxTicks == 2          \* the clock advances at most this many times
IterationLimit == 7    \* stands for the 500000 of `if (nonce > 500000)`
MaxRuns == 2           \* runs of solveChallenge in one behaviour of SpecPow

\* the tasks: two inbound requests can be in flight at a time
Procs == {1, 2}

----------------------------------------------------------------------------
(* JavaScript values.  Every value of a record field is a token sequence. *)

ABSENT == <<"<absent>">>        \* the key is not an own property
UNDEF  == <<"<undefined>">>     \* the key is present with value undefined
NULL   == <<"<null>">>
TRUE_  == <<"true">>
FALSE_ == <<"false">>
EMPTY  == <<>>                  \* the empty string ""

Truthy(v) == v \notin {ABSENT, UNDEF, NULL, FALSE_, EMPTY}

\* a || b
Or(a, b) == IF Truthy(a) THEN a ELSE b

RECURSIVE Join(_, _)
\* Array.prototype.join(sep) on a sequence of strings
Join(ss, sep) ==
    IF Len(ss) = 0 THEN EMPTY
    ELSE IF Len(ss) = 1 THEN ss[1]
    ELSE ss[1] \o sep \o Join(Tail(ss), sep)

----------------------------------------------------------------------------
(* Records handed around by the handler: objects over a fixed universe of  *)
(* keys; a key that an object does not have maps to ABSENT.                *)

Fields == {"site", "sid", "success", "error", "format", "data",
           "poster", "name", "year", "imdb_id", "debug_info", "debug",
           "copyright", "version"}

EmptyObj == [f \in Fields |-> ABSENT]

\* { ...a, ...b }: every own key of b (an undefined value included) wins
Spread(a, b) == [f \in Fields |-> IF b[f] # ABSENT THEN b[f] ELSE a[f]]

\* JSON.stringify drops the keys whose value is undefined
JSON_stringify(obj) ==
    [json |-> [f \in Fields |-> IF obj[f] = UNDEF THEN ABSENT ELSE obj[f]]]

JSON_parse(str) == str.json

VERSION == <<"0.6.4">>
AUTHOR == <<"Rhilip">>

\* makeJsonRawResponse + makeJsonResponse: the Response the caller gets
makeJsonRawResponse(body, generate_at, status) ==
    [status |-> status, body |-> body, generate_at |-> generate_at]

\* a default body that starts from success: true
default_body_true ==
    [EmptyObj EXCEPT !["success"] = TRUE_,
                     !["error"] = NULL,
                     !["format"] = EMPTY,
                     !["copyright"] = <<"Powered by @">> \o AUTHOR,
                     !["version"] = VERSION]

\* makeJsonResponse: the default_body literal
default_body ==
    [EmptyObj EXCEPT !["success"] = FALSE_,
                     !["error"] = NULL,
                     !["format"] = EMPTY,
                     !["copyright"] = <<"Powered by @">> \o AUTHOR,
                     !["version"] = VERSION]

makeJsonResponse(body_update, statusCode, t) ==
    makeJsonRawResponse(Spread(default_body, body_update), t, statusCode)

----------------------------------------------------------------------------
(* The KV store polyfill over memoryCache *)

TickMs == 36 * 3600 * 1000      \* one step of the clock: a day and a half
ExpirationTtl == 86400 * 2      \* handle: { expirationTtl: 86400 * 2 }
DefaultTtl == 86400             \* put: options.expirationTtl || 86400

\* the value null, where an object or a JSON text is expected
NullObj == [f \in Fields |-> NULL]
NullStr == [json |-> NullObj]

\* PT_GEN_STORE.get: the value returned (null on a miss or an expired item)
PT_GEN_STORE_get_value(mc, key, t) ==
    IF key \notin DOMAIN mc THEN NullStr
    ELSE IF t > mc[key].expiry THEN NullStr
    ELSE mc[key].value

\* PT_GEN_STORE.get: the map afterwards (an expired item is deleted)
PT_GEN_STORE_get_map(mc, key, t) ==
    IF key \in DOMAIN mc /\ t > mc[key].expiry
    THEN [k \in (DOMAIN mc) \ {key} |-> mc[k]]
    ELSE mc

\* PT_GEN_STORE.put
PT_GEN_STORE_put(mc, key, value, expirationTtl, t) ==
    LET ttl == IF expirationTtl = 0 THEN DefaultTtl ELSE expirationTtl
        item == [value |-> value, expiry |-> t + (ttl * 1000)]
    IN  [k \in (DOMAIN mc) \cup {key} |-> IF k = key THEN item ELSE mc[k]]

\* the ternary with its arms exchanged
restoreFromKV_swapped(mc, cache_key, t) ==
    LET data == PT_GEN_STORE_get_value(mc, cache_key, t)
    IN  IF data = NullStr THEN JSON_parse(data) ELSE NullObj

\* restoreFromKV: data ? JSON.parse(data) : null
restoreFromKV(mc, cache_key, t) ==
    LET data == PT_GEN_STORE_get_value(mc, cache_key, t)
    IN  IF data = NullStr THEN NullObj ELSE JSON_parse(data)

----------------------------------------------------------------------------
(* solveChallenge: the proof-of-work search.                               *)
(* The digest stands for SHA-512 in hex: a deterministic function of the   *)
(* whole input string whose first four hex characters are a 16-bit mix of  *)
(* every character, so an all-zero prefix is hit by few inputs.            *)

Chars == <<"a", "b", "c", "0", "1", "2", "3", "4", "5", "6", "7", "8", "9">>

CharCode(ch) == CHOOSE i \in 1..Len(Chars) : Chars[i] = ch

HexDigits == <<"0", "1", "2", "3", "4", "5", "6", "7",
               "8", "9", "a", "b", "c", "d", "e", "f">>

RECURSIVE Mix(_, _)
Mix(h, s) ==
    IF s = <<>> THEN h
    ELSE Mix(((h * 33) + CharCode(Head(s))) % 65536, Tail(s))

\* crypto.createHash('sha512').update(data).digest('hex')
sha512_hex(data) ==
    LET h == Mix(7, data)
        l == Len(data) % 256
    IN  << HexDigits[((h \div 4096) % 16) + 1],
           HexDigits[((h \div 256) % 16) + 1],
           HexDigits[((h \div 16) % 16) + 1],
           HexDigits[(h % 16) + 1],
           HexDigits[((l \div 16) % 16) + 1],
           HexDigits[(l % 16) + 1] >>

RECURSIVE Decimal(_)
\* the decimal digits of a non-negative integer (cha + nonce coerces nonce)
Decimal(n) ==
    IF n < 10 THEN << Chars[n + 4] >>
    ELSE Decimal(n \div 10) \o << Chars[(n % 10) + 4] >>

\* '0'.repeat(difficulty)
Repeat0(difficulty) == [i \in 1..difficulty |-> "0"]

\* hash.substring(0, difficulty)
Substring0(s, n) == SubSeq(s, 1, IF n < Len(s) THEN n ELSE Len(s))

Difficulty == 4

\* a search that starts one nonce late
FirstNonce_late == 0 + 1

\* the first nonce tried: let nonce = 0
FirstNonce == 0

\* one pass of the body of `while (true)` for the current nonce
solveChallengeIter(cha, difficulty, nonce) ==
    LET target == Repeat0(difficulty)
        hash == sha512_hex(cha \o Decimal(nonce))
    IN  IF Substring0(hash, difficulty) = target
        THEN [kind |-> "return", nonce |-> nonce]
        ELSE IF nonce + 1 > IterationLimit
             THEN [kind |-> "throw", nonce |-> nonce + 1]
             ELSE [kind |-> "continue", nonce |-> nonce + 1]

RECURSIVE solveChallengeLoop(_, _, _)
solveChallengeLoop(cha, difficulty, nonce) ==
    LET r == solveChallengeIter(cha, difficulty, nonce)
    IN  IF r.kind = "continue"
        THEN solveChallengeLoop(cha, difficulty, r.nonce)
        ELSE r

\* solveChallenge(cha, difficulty): [kind |-> "return", nonce] or a throw
solveChallenge(cha, difficulty) ==
    solveChallengeLoop(cha, difficulty, FirstNonce)

\* challenge strings: solved at nonce 0, 2, 7, 8, 9, and never
Challenges == { <<"2", "b", "9">>, <<"0", "4", "3">>,
                <<"c", "a", "c", "3">>, <<"b", "c", "c", "1">>,
                <<"a", "1", "c", "c">>, <<"a">> }

(* The search run nonce by nonce: pow is one call of solveChallenge, and    *)
(* pow.results the outcome of every call so far.                           *)

PowInit ==
    pow = [pc |-> "idle", cha |-> <<>>, nonce |-> 0, attempts |-> 0,
           runs |-> 0, results |-> <<>>]

PowIdle == [pc |-> "off", cha |-> <<>>, nonce |-> 0, attempts |-> 0,
            runs |-> 0, results |-> <<>>]

\* a call solveChallenge(cha, 4)
PowCall(cha) ==
    /\ pow.pc \in {"idle", "returned", "thrown"}
    /\ pow.runs < MaxRuns
    /\ pow' = [pow EXCEPT !.pc = "loop", !.cha = cha, !.nonce = FirstNonce,
                          !.attempts = 0, !.runs = @ + 1]
    /\ UNCHANGED <<memoryCache, now, env, task, nreq, ident>>

\* one iteration of the loop: one digest computed
PowIterate ==
    /\ pow.pc = "loop"
    /\ LET r == solveChallengeIter(pow.cha, Difficulty, pow.nonce)
       IN  pow' = [pow EXCEPT
                !.attempts = @ + 1,
                !.nonce = r.nonce,
                !.pc = CASE r.kind = "continue" -> "loop"
                         [] r.kind = "return" -> "returned"
                         [] r.kind = "throw" -> "thrown",
                !.results = IF r.kind = "continue" THEN @
                            ELSE Append(@, [cha |-> pow.cha, kind |-> r.kind,
                                            nonce |-> r.nonce,
                                            attempts |-> pow.attempts + 1])]
    /\ UNCHANGED <<memoryCache, now, env, task, nreq, ident>>


----------------------------------------------------------------------------
(* support_list and the identification loop of handle.                     *)
(* A url is a token sequence: every punctuation character and every digit  *)
(* is a token of its own, a word of letters is one token.  The patterns    *)
(* are unanchored: str.match takes the leftmost place where one matches.   *)

\* \d
IsDigit(t) == t \in {"0", "1", "2", "3", "4", "5", "6", "7", "8", "9"}

\* [a-zA-Z-]: the words of letters of the urls, and the dash
IsAlphaDash(t) ==
    t \in {"zh", "CN", "home", "x", "y", "store", "product", "game",
           "subject", "movie", "title", "app", "www", "com", "tt", "-"}
NonSpace(t) == t # " "                                 \* \S

\* the literal lit stands at index i of s
LitAt(s, i, lit) ==
    /\ i >= 1
    /\ i + Len(lit) - 1 <= Len(s)
    /\ SubSeq(s, i, i + Len(lit) - 1) = lit

\* the last index of the longest run of digits that starts at i (i-1: none)
DigitRunEnd(s, i) ==
    CHOOSE j \in (i - 1)..Len(s) :
        /\ \A k \in i..j : IsDigit(s[k])
        /\ j = Len(s) \/ ~IsDigit(s[j + 1])

NonSpaceRunEnd(s, i) ==
    CHOOSE j \in (i - 1)..Len(s) :
        /\ \A k \in i..j : NonSpace(s[k])
        /\ j = Len(s) \/ ~NonSpace(s[j + 1])

AlphaDashRunEnd(s, i) ==
    CHOOSE j \in (i - 1)..Len(s) :
        /\ \A k \in i..j : IsAlphaDash(s[k])
        /\ j = Len(s) \/ ~IsAlphaDash(s[j + 1])

\* the leftmost of the places where the pattern's mandatory part matches
Leftmost(S) == CHOOSE i \in S : \A j \in S : i <= j

\* douban\.com\/(?:subject|movie)\/(\d+)
DoubanAt(s, i) ==
    /\ LitAt(s, i, <<"douban", ".", "com", "/">>)
    /\ \/ LitAt(s, i + 4, <<"subject", "/">>)
       \/ LitAt(s, i + 4, <<"movie", "/">>)
    /\ DigitRunEnd(s, i + 6) >= i + 6

\* imdb\.com\/title\/(tt\d+)
ImdbAt(s, i) ==
    /\ LitAt(s, i, <<"imdb", ".", "com", "/", "title", "/", "tt">>)
    /\ DigitRunEnd(s, i + 7) >= i + 7

\* (?:bgm\.tv|bangumi\.tv|chii\.in)\/subject\/(\d+)
BangumiAt(s, i) ==
    /\ \/ LitAt(s, i, <<"bgm", ".", "tv">>)
       \/ LitAt(s, i, <<"bangumi", ".", "tv">>)
       \/ LitAt(s, i, <<"chii", ".", "in">>)
    /\ LitAt(s, i + 3, <<"/", "subject", "/">>)
    /\ DigitRunEnd(s, i + 6) >= i + 6

\* steam(?:powered|community)\.com\/app\/(\d+)
SteamAt(s, i) ==
    /\ \/ LitAt(s, i, <<"steampowered">>)
       \/ LitAt(s, i, <<"steamcommunity">>)
    /\ LitAt(s, i + 1, <<".", "com", "/", "app", "/">>)
    /\ DigitRunEnd(s, i + 6) >= i + 6

\* indienova\.com\/game\/(\S+)
IndienovaAt(s, i) ==
    /\ LitAt(s, i, <<"indienova", ".", "com", "/", "game", "/">>)
    /\ NonSpaceRunEnd(s, i + 6) >= i + 6

\* www\.epicgames\.com\/store\/[a-zA-Z-]+\/product\/(\S+)\/\S?
\* the index of the "/" that follows the capture: the last one of the run
EpicSlash(s, i) ==
    LET a == AlphaDashRunEnd(s, i + 8)
        c == a + 4                      \* where the capture starts
        e == NonSpaceRunEnd(s, c)
        S == {k \in (c + 1)..e : s[k] = "/"}
    IN  IF S = {} THEN 0 ELSE CHOOSE k \in S : \A j \in S : j <= k

EpicAt(s, i) ==
    /\ LitAt(s, i, <<"www", ".", "epicgames", ".", "com", "/", "store", "/">>)
    /\ AlphaDashRunEnd(s, i + 8) >= i + 8
    /\ LitAt(s, AlphaDashRunEnd(s, i + 8) + 1, <<"/", "product", "/">>)
    /\ EpicSlash(s, i) > 0

\* url_str.match(support_list[site_name]): match and match[1]
support_list(site_name, s) ==
    LET At(i) == CASE site_name = "douban" -> DoubanAt(s, i)
                   [] site_name = "imdb" -> ImdbAt(s, i)
                   [] site_name = "bangumi" -> BangumiAt(s, i)
                   [] site_name = "steam" -> SteamAt(s, i)
                   [] site_name = "indienova" -> IndienovaAt(s, i)
                   [] site_name = "epic" -> EpicAt(s, i)
        S == {i \in 1..Len(s) : At(i)}
        i == Leftmost(S)
    IN  IF S = {} THEN [matched |-> FALSE, sid |-> UNDEF]
        ELSE [matched |-> TRUE,
              sid |-> CASE site_name = "douban" ->
                             SubSeq(s, i + 6, DigitRunEnd(s, i + 6))
                        [] site_name = "imdb" ->
                             SubSeq(s, i + 6, DigitRunEnd(s, i + 7))
                        [] site_name = "bangumi" ->
                             SubSeq(s, i + 6, DigitRunEnd(s, i + 6))
                        [] site_name = "steam" ->
                             SubSeq(s, i + 6, DigitRunEnd(s, i + 6))
                        [] site_name = "indienova" ->
                             SubSeq(s, i + 6, NonSpaceRunEnd(s, i + 6))
                        [] site_name = "epic" ->
                             SubSeq(s, AlphaDashRunEnd(s, i + 8) + 4,
                                    EpicSlash(s, i) - 1)]

\* the entries in alphabetical order
SupportOrder_sorted == <<"bangumi", "douban", "epic", "imdb", "indienova", "steam">>

\* Object.entries(support_list): the keys in insertion order
SupportOrder == <<"douban", "imdb", "bangumi", "steam", "indienova", "epic">>

\* one pass of `for (const [site_name, pattern] of ...)` at entry i
identifyIter(url_str, i) ==
    IF i > Len(SupportOrder)
    THEN [kind |-> "end", i |-> i, site |-> UNDEF, sid |-> UNDEF]
    ELSE LET match == support_list(SupportOrder[i], url_str)
         IN  IF match.matched
             THEN [kind |-> "break", i |-> i,
                   site |-> <<SupportOrder[i]>>, sid |-> match.sid]
             ELSE [kind |-> "continue", i |-> i + 1,
                   site |-> UNDEF, sid |-> UNDEF]

RECURSIVE identifyLoop(_, _)
identifyLoop(url_str, i) ==
    LET r == identifyIter(url_str, i)
    IN  IF r.kind = "continue" THEN identifyLoop(url_str, r.i) ELSE r

\* the loop of handle over support_list: site and sid (undefined: no match)
identify(url_str) == identifyLoop(url_str, 1)

Https == <<"https", ":", "/", "/">>

UrlSamples == {
    Https \o <<"movie", ".", "douban", ".", "com", "/", "subject", "/", "1", "2", "/">>,
    <<"douban", ".", "com", "/", "movie", "/", "1">>,
    Https \o <<"www", ".", "imdb", ".", "com", "/", "title", "/", "tt", "1", "2", "/">>,
    Https \o <<"bgm", ".", "tv", "/", "subject", "/", "1">>,
    Https \o <<"bgm", ".", "tv", "/", "subject", "/", "x">>,
    Https \o <<"store", ".", "steampowered", ".", "com", "/", "app", "/", "1", "2", "/">>,
    Https \o <<"indienova", ".", "com", "/", "game", "/", "x">>,
    Https \o <<"www", ".", "epicgames", ".", "com", "/", "store", "/", "zh", "-", "CN",
               "/", "product", "/", "x", "/", "home">>,
    Https \o <<"www", ".", "epicgames", ".", "com", "/", "store", "/", "zh", "-", "CN",
               "/", "product", "/", "x", "/", "y", "/", "home">>,
    Https \o <<"www", ".", "epicgames", ".", "com", "/", "store", "/", "zh", "-", "CN",
               "/", "product", "/", "x">>,
    Https \o <<"indienova", ".", "com", "/", "game", "/", "x", "/">>
          \o Https \o <<"movie", ".", "douban", ".", "com", "/", "subject", "/", "1", "/">>,
    Https \o <<"www", ".", "imdb", ".", "com", "/", "title", "/", "tt", "1", "/", " ">>
          \o Https \o <<"www", ".", "douban", ".", "com", "/", "subject", "/", "2", "/">>,
    Https \o <<"store", ".", "steampowered", ".", "com", "/", "app", "/", "1", "/", " ">>
          \o <<"bgm", ".", "tv", "/", "subject", "/", "2">>,
    Https \o <<"example", ".", "com", "/">>,
    <<>>
}

(* The loop run entry by entry: ident is one identification of a url.      *)

IdentOff == [pc |-> "off", url |-> <<>>, i |-> 1, consulted |-> <<>>,
             site |-> UNDEF, sid |-> UNDEF, runs |-> 0]

IdentInit == ident = [IdentOff EXCEPT !.pc = "idle"]

\* uri.query.url is given: let site, sid; the loop starts
IdentStart(url_str) ==
    /\ ident.pc \in {"idle", "done"}
    /\ ident.runs < MaxRuns
    /\ ident' = [pc |-> "loop", url |-> url_str, i |-> 1, consulted |-> <<>>,
                 site |-> UNDEF, sid |-> UNDEF, runs |-> ident.runs + 1]
    /\ UNCHANGED <<memoryCache, now, env, task, nreq, pow>>

\* one entry of support_list is consulted
IdentStep ==
    /\ ident.pc = "loop"
    /\ LET r == identifyIter(ident.url, ident.i)
       IN  ident' = [ident EXCEPT
                !.i = r.i,
                !.consulted = IF r.kind = "end" THEN @
                              ELSE Append(@, SupportOrder[ident.i]),
                !.site = r.site,
                !.sid = r.sid,
                !.pc = IF r.kind = "continue" THEN "loop" ELSE "done"]
    /\ UNCHANGED <<memoryCache, now, env, task, nreq, pow>>


----------------------------------------------------------------------------
(* What an outbound fetch can bring back.  A response is described by what *)
(* the code looks at: the status, the markers its text contains, the form  *)
(* fields the challenge patterns can extract, the state of the ld+json     *)
(* block (HTML) or of the JSON payload, the headers of a challenge         *)
(* submission, and the fields the formatters read.                         *)

HOOK == "process(cha)"           \* responseText.includes('process(cha)')
CHA_ID == "id=\"cha\""           \* responseText.includes('id="cha"')
DOUBAN_404 == "douban-not-exist" \* the page-does-not-exist text of douban
DOUBAN_BAN == "douban-abnormal"  \* the abnormal-requests text of douban
IMDB_404 == "404 Error - IMDb"
BGM_404 == "bangumi-error"       \* the error text of bangumi
INDIE_404 == "indienova-error"   \* the error text of indienova

NoFields == [poster |-> UNDEF, name |-> EMPTY, extra |-> EMPTY, imdb |-> UNDEF]
SomeFields == [poster |-> <<"poster.jpg">>, name |-> <<"Name">>,
               extra |-> <<"1994">>, imdb |-> <<"tt", "1">>]

PlainPage == [status |-> 200, has |-> {}, tok |-> ABSENT, cha |-> ABSENT,
              red |-> ABSENT, ld |-> "ok", json |-> "ok",
              set_cookie |-> UNDEF, location |-> UNDEF, f |-> SomeFields]

BarePage == [PlainPage EXCEPT !.f = NoFields]

\* fetch() rejects: a transport failure
NetworkError == [PlainPage EXCEPT !.status = 0, !.ld = "none", !.json = "bad",
                                  !.f = NoFields]

GatePage(tok, cha, red) ==
    [PlainPage EXCEPT !.has = {HOOK, CHA_ID}, !.tok = tok, !.cha = cha,
                      !.red = red, !.ld = "none", !.json = "bad",
                      !.f = NoFields]

DoubanGates ==
    { GatePage(<<"t">>, <<"0", "4", "3">>, ABSENT),       \* solved at nonce 2
      GatePage(<<"t">>, <<"a">>, <<"r">>),                \* never solved
      GatePage(ABSENT, <<"0", "4", "3">>, ABSENT),        \* no tok field
      [GatePage(<<"t">>, <<"0", "4", "3">>, ABSENT) EXCEPT !.has = {HOOK}] }

\* further pages for the solver called on its own
MoreGates ==
    { GatePage(<<"t">>, ABSENT, ABSENT),                  \* id="cha", no value
      GatePage(<<"t">>, <<"0", "4", "3">>, <<"r">>),
      [GatePage(<<"t">>, <<"0", "4", "3">>, ABSENT) EXCEPT !.has = {CHA_ID}],
      [GatePage(<<"t">>, <<"0", "4", "3">>, ABSENT) EXCEPT !.has = {}] }

DoubanPages ==
    { PlainPage,
      [BarePage EXCEPT !.has = {DOUBAN_404}, !.ld = "none"],
      [BarePage EXCEPT !.has = {DOUBAN_BAN}, !.ld = "none"],
      [BarePage EXCEPT !.ld = "none"],
      [PlainPage EXCEPT !.ld = "bad"] }

\* a page with none of the optional fields
MorePages == { BarePage }

DoubanSearchPages ==
    { PlainPage, [BarePage EXCEPT !.json = "bad"],
      [BarePage EXCEPT !.json = "object"] }

\* the challenge pages a search is answered with
SearchGates == { GatePage(ABSENT, <<"0", "4", "3">>, ABSENT) }

ImdbPages ==
    { PlainPage,
      [BarePage EXCEPT !.has = {IMDB_404}, !.ld = "none"],
      [BarePage EXCEPT !.ld = "none"],
      [PlainPage EXCEPT !.ld = "bad"] }

JsonPages == { PlainPage, [BarePage EXCEPT !.json = "bad"] }

BangumiPages == { PlainPage, [BarePage EXCEPT !.has = {BGM_404}] }

SteamPages ==
    { PlainPage, [BarePage EXCEPT !.status = 302],
      [BarePage EXCEPT !.status = 403] }

IndienovaPages ==
    { PlainPage, [BarePage EXCEPT !.has = {INDIE_404}] }

EpicPages ==
    { PlainPage, [BarePage EXCEPT !.status = 404],
      [BarePage EXCEPT !.json = "bad"], [BarePage EXCEPT !.json = "nopages"] }

\* the answers to the submission of a solution
SubmitResponses ==
    { [BarePage EXCEPT !.status = 302, !.set_cookie = <<"sess">>,
                       !.location = <<"loc">>],
      [BarePage EXCEPT !.status = 302, !.set_cookie = <<"sess">>],
      [BarePage EXCEPT !.status = 200] }

\* an outbound request, as far as the code determines it
Request(url, method, body, cookie, redirect) ==
    [url |-> url, method |-> method, body |-> body, cookie |-> cookie,
     redirect |-> redirect]

Get(url) == Request(url, "GET", EMPTY, UNDEF, "follow")

----------------------------------------------------------------------------
(* solveDoubanChallenge.  ctx tells the copy that runs: "server" is        *)
(* server.js, where the global URLSearchParams is the polyfill class;      *)
(* "worker" is lib/douban_challenge.js under the platform's own class.     *)

\* the polyfill class URLSearchParams has constructor, get and has only
URLSearchParams_has_append(ctx) == ctx # "server"

\* a test that lets a page through when it has either marker
IsChallengePage_either(text) == ~(HOOK \notin text.has /\ CHA_ID \notin text.has)

\* the two includes() tests that open solveDoubanChallenge
IsChallengePage(text) == ~(HOOK \notin text.has \/ CHA_ID \notin text.has)

NoChallenge == [solved |-> FALSE, error |-> UNDEF, cookies |-> UNDEF,
                tok |-> UNDEF, cha |-> UNDEF, red |-> UNDEF, sol |-> UNDEF]

RETURN(v) == [kind |-> "return", value |-> v]
THROW(name) == [kind |-> "throw", value |-> name]
AWAIT(request, locals) == [kind |-> "fetch", value |-> request, locals |-> locals]

PARAMS_MISSING(ctx) ==
    <<"Could not extract challenge parameters">>
NO_COOKIES(ctx) ==
    IF ctx = "server" THEN <<"No cookies received">>
    ELSE <<"No cookies received from challenge submission">>
TIMEOUT(ctx) ==
    IF ctx = "server" THEN <<"Challenge timeout">>
    ELSE <<"Challenge solution timeout - too many iterations">>

\* formData.toString() after the four append calls
FormBody(tok, cha, sol, red) ==
    <<"tok", "=">> \o tok \o <<"&", "cha", "=">> \o cha
        \o <<"&", "sol", "=">> \o sol \o <<"&", "red", "=">> \o red

\* solveDoubanChallenge from its entry to its first outbound fetch
solveDoubanChallenge(ctx, responseText) ==
    IF ~IsChallengePage(responseText)
    THEN RETURN(NoChallenge)
    ELSE IF ~Truthy(responseText.tok) \/ ~Truthy(responseText.cha)
    THEN RETURN([NoChallenge EXCEPT !.error = PARAMS_MISSING(ctx)])
    ELSE LET tok == responseText.tok
             cha == responseText.cha
             red == IF Truthy(responseText.red) THEN responseText.red
                    ELSE <<"https://movie.douban.com/">>
             sol == solveChallenge(cha, 4)
         IN  IF sol.kind = "throw" THEN THROW(TIMEOUT(ctx))
             ELSE IF ~URLSearchParams_has_append(ctx)
             THEN THROW(<<"formData.append is not a function">>)
             ELSE AWAIT(Request(<<"https://sec.douban.com/c">>, "POST",
                                FormBody(tok, cha, Decimal(sol.nonce), red),
                                UNDEF, "manual"),
                        [NoChallenge EXCEPT !.tok = tok, !.cha = cha,
                                            !.red = red,
                                            !.sol = Decimal(sol.nonce)])

\* solveDoubanChallenge once the submission is answered
solveDoubanChallenge_submitted(ctx, locals, submitResp) ==
    LET cookies == submitResp.set_cookie
        location == submitResp.location
    IN  IF ~Truthy(cookies)
        THEN RETURN([locals EXCEPT !.error = NO_COOKIES(ctx)])
        ELSE AWAIT(Request(Or(location, locals.red), "GET", EMPTY, cookies,
                           "follow"),
                   [locals EXCEPT !.cookies = cookies])

\* solveDoubanChallenge once the final page is there
solveDoubanChallenge_final(locals) ==
    RETURN([locals EXCEPT !.solved = TRUE])


----------------------------------------------------------------------------
(* The site adapters, from the text of the page to the record returned.    *)
(* A description is a token sequence: a line is its label, its value and   *)
(* the token NL.                                                           *)

NONE_EXIST_ERROR == <<"The corresponding resource does not exist.">>

NL == "NL"

Line(label, value) == <<label>> \o value \o <<NL>>

Img(poster) == <<"[img]">> \o poster \o <<"[/img]", NL, NL>>

\* cond ? line : ""
If(cond, line) == IF Truthy(cond) THEN line ELSE EMPTY

RECURSIVE TrimStart(_)
TrimStart(s) ==
    IF s # <<>> /\ Head(s) \in {NL, " "} THEN TrimStart(Tail(s)) ELSE s

RECURSIVE TrimEnd(_)
TrimEnd(s) ==
    IF s # <<>> /\ s[Len(s)] \in {NL, " "}
    THEN TrimEnd(SubSeq(s, 1, Len(s) - 1)) ELSE s

\* String.prototype.trim
Trim(s) == TrimEnd(TrimStart(s))

\* a key of the page's JSON that is not there reads as undefined
Key(v) == IF v = EMPTY THEN UNDEF ELSE v

Data(site, sid) ==
    [EmptyObj EXCEPT !["site"] = <<site>>, !["sid"] = sid]

DEBUG_INFO == <<"{debug_info}">>

\* gen_douban from the not-found test to its return
gen_douban_parse(sid, text) ==
    LET data == Data("douban", sid)
        douban_link == <<"https://movie.douban.com/subject/">> \o sid \o <<"/">>
    IN  IF DOUBAN_404 \in text.has
        THEN RETURN([data EXCEPT !["error"] = NONE_EXIST_ERROR])
        ELSE IF DOUBAN_BAN \in text.has
        THEN RETURN([data EXCEPT
                 !["error"] = <<"GenHelp was temporary banned by Douban">>])
        ELSE IF text.ld = "none"
        THEN RETURN([data EXCEPT !["error"] = <<"Could not find movie data">>,
                                 !["debug_info"] = DEBUG_INFO])
        ELSE IF text.ld = "bad"
        THEN RETURN([data EXCEPT !["error"] = <<"Failed to parse movie data">>,
                                 !["debug_info"] = DEBUG_INFO])
        ELSE
        LET imdb_id == text.f.imdb
            imdb_link == IF Truthy(imdb_id)
                         THEN <<"https://www.imdb.com/title/">> \o imdb_id \o <<"/">>
                         ELSE UNDEF
            this_title == text.f.name
            year == <<" ">> \o text.f.extra
            poster == IF Truthy(text.f.poster) THEN text.f.poster ELSE EMPTY
            douban_rating == <<"0/10 from 0 users">>
            introduction == <<"intro">>
            descr == If(poster, Img(poster))
                     \o If(this_title, Line("title:", this_title))
                     \o If(year, Line("year:", Trim(year)))
                     \o If(imdb_link, Line("imdb link:", imdb_link))
                     \o If(douban_rating, Line("douban rating:", douban_rating))
                     \o If(douban_link, Line("douban link:", douban_link))
                     \o If(introduction, <<NL>> \o Line("intro:", introduction))
        IN  RETURN([data EXCEPT !["success"] = TRUE_,
                                !["format"] = Trim(descr),
                                !["name"] = this_title,
                                !["year"] = year,
                                !["poster"] = poster,
                                !["imdb_id"] = imdb_id])

\* gen_douban between the return of solveDoubanChallenge and the not-found
\* test: the page to parse, or the fetch of the page with the cookies
gen_douban_challenged(sid, challenge, text, challenge_text) ==
    IF challenge.solved /\ Truthy(challenge.cookies)
    THEN AWAIT(Request(<<"https://movie.douban.com/subject/">> \o sid \o <<"/">>,
                       "GET", EMPTY, challenge.cookies, "follow"), challenge)
    ELSE gen_douban_parse(sid, IF challenge.solved THEN challenge_text ELSE text)

\* search_douban after solveDoubanChallenge has returned
search_douban_parse(challenge, text, challenge_text) ==
    LET t == IF challenge.solved THEN challenge_text ELSE text
    IN  IF t.json = "ok"
        THEN RETURN([EmptyObj EXCEPT !["data"] = <<"[">> \o t.f.name \o <<"]">>])
        ELSE RETURN([EmptyObj EXCEPT
                 !["error"] = <<"Failed to parse search results">>,
                 !["debug_info"] = DEBUG_INFO])

\* search_imdb and search_bangumi after the fetch: resp.json() may throw
search_json_parse(resp) ==
    IF resp.json = "bad" THEN THROW(<<"Unexpected token in JSON">>)
    ELSE RETURN([EmptyObj EXCEPT !["data"] = <<"[">> \o resp.f.name \o <<"]">>])

RECURSIVE PadStart0(_, _)
\* sid.padStart(n, "0")
PadStart0(s, n) == IF Len(s) >= n THEN s ELSE PadStart0(<<"0">> \o s, n)

\* gen_imdb: "tt" + sid.padStart(7, "0") without a leading tt
imdb_id_of(sid) ==
    LET t == IF sid # <<>> /\ Head(sid) = "tt" THEN Tail(sid) ELSE sid
    IN  <<"tt">> \o PadStart0(t, 7)

\* gen_imdb after the fetch
gen_imdb_parse(sid, text) ==
    LET data == Data("imdb", sid)
        imdb_id == imdb_id_of(sid)
        imdb_url == <<"https://www.imdb.com/title/">> \o imdb_id \o <<"/">>
    IN  IF IMDB_404 \in text.has
        THEN RETURN([data EXCEPT !["error"] = NONE_EXIST_ERROR])
        ELSE IF text.ld = "none"
        THEN THROW(<<"Cannot read properties of null (reading 'replace')">>)
        ELSE IF text.ld = "bad"
        THEN THROW(<<"Unexpected token in JSON">>)
        ELSE
        LET name == Key(text.f.name)
            datePublished == Key(text.f.extra)
            poster == text.f.poster
            descr == If(poster, Img(poster))
                     \o If(name, Line("Title:", name))
                     \o If(datePublished, Line("Date Published:", datePublished))
                     \o If(imdb_url, Line("IMDb Link:", imdb_url))
        IN  RETURN([data EXCEPT !["imdb_id"] = imdb_id,
                                !["name"] = name,
                                !["year"] = datePublished,
                                !["poster"] = poster,
                                !["format"] = Trim(descr),
                                !["success"] = TRUE_])

\* gen_bangumi after the fetch
gen_bangumi_parse(sid, text) ==
    LET data == Data("bangumi", sid)
        bangumi_link == <<"https://bgm.tv/subject/">> \o sid
    IN  IF BGM_404 \in text.has
        THEN RETURN([data EXCEPT !["error"] = NONE_EXIST_ERROR])
        ELSE
        LET poster == IF Truthy(text.f.poster)
                      THEN <<"https:">> \o text.f.poster ELSE EMPTY
            story == text.f.extra
            descr == If(poster, Img(poster))
                     \o If(story, Line("[b]Story: [/b]", story) \o <<NL>>)
                     \o If(bangumi_link, Line("source:", bangumi_link))
        IN  RETURN([data EXCEPT !["poster"] = poster,
                                !["format"] = Trim(descr),
                                !["success"] = TRUE_])

\* gen_steam after the fetch
gen_steam_parse(sid, resp) ==
    LET data == Data("steam", sid)
    IN  IF resp.status = 302
        THEN RETURN([data EXCEPT !["error"] = NONE_EXIST_ERROR])
        ELSE IF resp.status = 403
        THEN RETURN([data EXCEPT !["error"] = <<"Steam Server ban">>])
        ELSE
        LET name == resp.f.name
            poster == resp.f.poster
            descr == If(poster, Img(poster))
                     \o If(name, Line("name:", name))
                     \o Line("Steam page:", <<"https://store.steampowered.com/app/">>
                                            \o sid \o <<"/">>)
        IN  RETURN([data EXCEPT !["name"] = name,
                                !["poster"] = poster,
                                !["format"] = Trim(descr),
                                !["success"] = TRUE_])

\* gen_indienova after the fetch
gen_indienova_parse(sid, text) ==
    LET data == Data("indienova", sid)
    IN  IF INDIE_404 \in text.has
        THEN RETURN([data EXCEPT !["error"] = NONE_EXIST_ERROR])
        ELSE
        LET poster == text.f.poster
            chinese_title == text.f.name
            descr == If(poster, Img(poster))
                     \o If(chinese_title, Line("name:", chinese_title))
        IN  RETURN([data EXCEPT !["poster"] = poster,
                                !["name"] = chinese_title,
                                !["format"] = Trim(descr),
                                !["success"] = TRUE_])

\* gen_epic after the fetch
gen_epic_parse(sid, resp) ==
    LET data == Data("epic", sid)
    IN  IF resp.status = 404
        THEN RETURN([data EXCEPT !["error"] = NONE_EXIST_ERROR])
        ELSE IF resp.json = "bad"
        THEN THROW(<<"Unexpected token in JSON">>)
        ELSE IF resp.json = "nopages"
        THEN RETURN([data EXCEPT !["error"] = <<"Invalid response">>])
        ELSE
        LET name == Key(resp.f.name)
            epic_link == <<"https://www.epicgames.com/store/zh-CN/product/">>
                         \o sid \o <<"/home">>
            desc == Key(resp.f.extra)
            poster == resp.f.poster
            descr == If(poster, Img(poster))
                     \o If(name, Line("name:", name))
                     \o If(epic_link, Line("store link:", epic_link))
                     \o If(desc, <<NL>> \o Line("about:", desc))
        IN  RETURN([data EXCEPT !["name"] = name,
                                !["poster"] = poster,
                                !["format"] = Trim(descr),
                                !["success"] = TRUE_])


----------------------------------------------------------------------------
(* Requests, the environment and the tasks *)

KEY == <<"secret">>

NoReq == [query |-> FALSE, apikey |-> UNDEF, search |-> UNDEF,
          source |-> UNDEF, url |-> UNDEF, site |-> UNDEF, sid |-> UNDEF]

Query == [NoReq EXCEPT !.query = TRUE, !.apikey = KEY]

Search(source, keywords) ==
    [Query EXCEPT !.search = keywords, !.source = source]
ByUrl(url_str) == [Query EXCEPT !.url = url_str]
BySid(site, sid) == [Query EXCEPT !.site = site, !.sid = sid]

SiteNames == {"douban", "imdb", "bangumi", "steam", "indienova", "epic"}

Requests ==
    {NoReq, [BySid(<<"foo">>, <<"1">>) EXCEPT !.apikey = UNDEF]}
    \cup {Search(src, <<"k">>) :
            src \in {UNDEF, <<"imdb">>, <<"bangumi">>, <<"foo">>}}
    \cup {ByUrl(u) : u \in
            { Https \o <<"bgm", ".", "tv", "/", "subject", "/", "1">>,
              Https \o <<"example", ".", "com", "/">> }}
    \cup {BySid(<<site>>, <<"1">>) : site \in SiteNames \ {"bangumi"}}
    \cup {BySid(<<"douban">>, EMPTY), BySid(UNDEF, <<"1">>),
          BySid(<<"bangumi">>, <<"1", "-", "2">>),
          BySid(<<"bangumi", "-", "1">>, <<"2">>)}

\* the requests that arrive while another request is in flight
Overlapping == {BySid(<<"douban">>, <<"1">>), Search(UNDEF, <<"k">>)}

Envs == { [DISABLE_SEARCH |-> FALSE, APIKEY |-> UNDEF],
          [DISABLE_SEARCH |-> TRUE, APIKEY |-> KEY] }

NoPage == [BarePage EXCEPT !.status = -1]

NoResponse == [type |-> "none", status |-> 0, body |-> NullObj,
               generate_at |-> 0]

\* what the Map held under the task's cache key when handle read it:
\* fresh is an item whose expiry had not passed
NotSeen == [fresh |-> FALSE, value |-> NullStr]

Seen(mc, key, t) ==
    IF key \in DOMAIN mc /\ mc[key].expiry >= t
    THEN [fresh |-> TRUE, value |-> mc[key].value]
    ELSE NotSeen

IdleTask ==
    [pc |-> "idle", ctx |-> "server", fn |-> "none", req |-> NoReq,
     mode |-> "none", site |-> UNDEF, sid |-> UNDEF, cache_key |-> UNDEF,
     cache_data |-> NullObj, text |-> NoPage, locals |-> NoChallenge,
     challenge |-> NoChallenge, challenge_text |-> NoPage,
     fetches |-> <<>>, puts |-> <<>>, reads |-> 0, response_data |-> NullObj,
     thrown |-> UNDEF, response |-> NoResponse, seen |-> NotSeen]

\* what Response.text() gives the caller: the body as JSON text, parsed
Delivered(resp) ==
    [type |-> "json", status |-> resp.status,
     body |-> JSON_parse(JSON_stringify(resp.body)),
     generate_at |-> resp.generate_at]

\* the condition without its test of response_data.error
ShouldStore_any(response_data, cache_key) == Truthy(cache_key)

\* global.PT_GEN_STORE && !response_data.error && cache_key
ShouldStore(response_data, cache_key) ==
    ~Truthy(response_data["error"]) /\ Truthy(cache_key)

\* debug_get_err(err, request): the message (after err.name), the
\* timestamp, and the method and url of the request
debug_get_err(message) ==
    <<"{", "message:">> \o message
        \o <<"timestamp:", "Date.now() / 1000",
             "request:", "method", "url", "}">>

\* a catch clause that hands on err.message alone
InternalError_bare(message) ==
    [EmptyObj EXCEPT !["error"] = message]

\* the object the catch clause of handle gives makeJsonResponse
InternalError(message) ==
    [EmptyObj EXCEPT !["error"] = <<"Internal Error: ">> \o message,
                     !["debug"] = debug_get_err(message)]

\* the tail of handle: `if (response_data) { ... }` and the catch clause;
\* gives the task and the cache afterwards
Respond(t, outcome, mc, time) ==
    IF outcome.kind = "throw"
    THEN [task |-> [t EXCEPT
                !.pc = "done",
                !.thrown = outcome.value,
                !.response = Delivered(makeJsonResponse(
                    InternalError(outcome.value), 500, time))],
          cache |-> mc]
    ELSE LET response_data == outcome.value
             response == makeJsonResponse(response_data, 200, time)
             store == ShouldStore(response_data, t.cache_key)
             value == JSON_stringify(response_data)
         IN  [task |-> [t EXCEPT
                    !.pc = "done",
                    !.response_data = response_data,
                    !.response = Delivered(response),
                    !.puts = IF store
                             THEN Append(@, [key |-> t.cache_key,
                                             value |-> value,
                                             ttl |-> ExpirationTtl,
                                             at |-> time])
                             ELSE @],
              cache |-> IF store
                        THEN PT_GEN_STORE_put(mc, t.cache_key, value,
                                              ExpirationTtl, time)
                        ELSE mc]

Finish(p, t, outcome) ==
    \E o \in {outcome} :
        \E r \in {Respond(t, o, memoryCache, now)} :
            /\ task' = [task EXCEPT ![p] = r.task]
            /\ memoryCache' = r.cache

\* the task suspends at an outbound fetch
Suspend(p, t, pc, request) ==
    /\ task' = [task EXCEPT ![p] = [t EXCEPT !.pc = pc,
                                             !.fetches = Append(@, request)]]
    /\ UNCHANGED memoryCache

\* a switch read the wrong way round
SearchDisabled_inverted(e) == ~e.DISABLE_SEARCH

\* if (process.env.DISABLE_SEARCH)
SearchDisabled(e) == e.DISABLE_SEARCH

\* cache_data = await restoreFromKV(cache_key): the read of the cache
Restore(p, t, mode, site, sid, cache_key) ==
    /\ task' = [task EXCEPT ![p] = [t EXCEPT
            !.pc = "restore", !.mode = mode,
            !.site = site, !.sid = sid,
            !.cache_key = cache_key,
            !.reads = @ + 1,
            !.seen = Seen(memoryCache, cache_key, now),
            !.cache_data = restoreFromKV(memoryCache, cache_key, now)]]
    /\ memoryCache' = PT_GEN_STORE_get_map(memoryCache, cache_key, now)

\* the search branch of handle, down to the read of the cache
HandleSearch(p, t, keywords, source) ==
    Restore(p, t, "search", source, keywords,
            <<"search", "-">> \o source \o <<"-">> \o keywords)

\* the info branch of handle once site and sid are set
HandleInfo(p, t, site, sid) ==
    IF ~Truthy(site) \/ ~Truthy(sid)
    THEN Finish(p, [t EXCEPT !.mode = "info"],
                RETURN([EmptyObj EXCEPT !["error"] =
                    <<"Miss key of site or sid, or input unsupported resource url.">>]))
    ELSE Restore(p, t, "info", site, sid,
                 <<"info", "-">> \o site \o <<"-">> \o sid)

HandleIdentified(p, t, id) == HandleInfo(p, t, id.site, id.sid)

\* handle from its entry to its first suspension: the root page, the api
\* key, the search switch, the identification and the read of the cache;
\* ctx is the URLSearchParams the process runs with
HandleStartIn(p, req, ctx) ==
    /\ task[p].pc = "idle"
    /\ \A q \in Procs : q < p => task[q].pc # "idle"
    /\ (\E q \in Procs : task[q].pc # "idle") => req \in Overlapping
    /\ nreq < MaxRequests
    /\ nreq' = nreq + 1
    /\ UNCHANGED <<now, env, pow, ident>>
    /\ IF ~req.query
       THEN /\ task' = [task EXCEPT ![p] = [IdleTask EXCEPT !.ctx = ctx,
                    !.req = req,
                    !.pc = "done",
                    !.response = [type |-> "html", status |-> 200,
                                  body |-> NullObj, generate_at |-> 0]]]
            /\ UNCHANGED memoryCache
       ELSE IF Truthy(env.APIKEY) /\ req.apikey # env.APIKEY
       THEN /\ task' = [task EXCEPT ![p] = [IdleTask EXCEPT !.ctx = ctx,
                    !.req = req,
                    !.pc = "done",
                    !.response = Delivered(makeJsonRawResponse(
                        [EmptyObj EXCEPT !["error"] = <<"apikey required.">>],
                        0, 403))]]
            /\ UNCHANGED memoryCache
       ELSE IF Truthy(req.search)
       THEN IF SearchDisabled(env)
            THEN Finish(p, [IdleTask EXCEPT !.ctx = ctx, !.req = req, !.mode = "search"],
                        RETURN([EmptyObj EXCEPT
                            !["error"] = <<"this ptgen disallow search">>]))
            ELSE HandleSearch(p, [IdleTask EXCEPT !.ctx = ctx, !.req = req], req.search,
                              Or(req.source, <<"douban">>))
       ELSE HandleIdentified(p, [IdleTask EXCEPT !.ctx = ctx, !.req = req],
                             IF Truthy(req.url) THEN identify(req.url)
                             ELSE [site |-> req.site, sid |-> req.sid])

\* handle in server.js, under its own class URLSearchParams
HandleStart(p, req) == HandleStartIn(p, req, "server")

\* the first fetch of the function handle dispatches to
FirstFetch(fn, sid) ==
    CASE fn = "search_douban" ->
            Get(<<"https://movie.douban.com/j/subject_suggest?q=">> \o sid)
      [] fn = "search_imdb" ->
            Get(<<"https://v2.sg.media-imdb.com/suggestion/">> \o SubSeq(sid, 1, 1)
                    \o <<"/">> \o sid \o <<".json">>)
      [] fn = "search_bangumi" ->
            Get(<<"http://api.bgm.tv/search/subject/">> \o sid
                    \o <<"?responseGroup=large">>)
      [] fn = "gen_douban" ->
            Get(<<"https://movie.douban.com/subject/">> \o sid \o <<"/">>)
      [] fn = "gen_imdb" ->
            Get(<<"https://www.imdb.com/title/">> \o imdb_id_of(sid) \o <<"/">>)
      [] fn = "gen_bangumi" -> Get(<<"https://bgm.tv/subject/">> \o sid)
      [] fn = "gen_steam" ->
            Request(<<"https://store.steampowered.com/app/">> \o sid \o <<"/?l=schinese">>,
                    "GET", EMPTY, <<"lastagecheckage=1-January-1975; birthtime=157737601; mature_content=1; wants_mature_content=1; Steam_Language=schinese">>, "manual")
      [] fn = "gen_indienova" -> Get(<<"https://indienova.com/game/">> \o sid)
      [] fn = "gen_epic" ->
            Get(<<"https://store-content.ak.epicgames.com/api/zh-CN/content/products/">> \o sid)

\* the if / else-if chains of handle below `if (cache_data)`
Dispatch(mode, site) ==
    IF mode = "search"
    THEN CASE site = <<"douban">> -> "search_douban"
           [] site = <<"imdb">> -> "search_imdb"
           [] site = <<"bangumi">> -> "search_bangumi"
           [] OTHER -> "unknown"
    ELSE CASE site = <<"douban">> -> "gen_douban"
           [] site = <<"imdb">> -> "gen_imdb"
           [] site = <<"bangumi">> -> "gen_bangumi"
           [] site = <<"steam">> -> "gen_steam"
           [] site = <<"indienova">> -> "gen_indienova"
           [] site = <<"epic">> -> "gen_epic"
           [] OTHER -> "unknown"

\* handle resumes with cache_data: a hit is the response, a miss dispatches
HandleRestored(p) ==
    /\ task[p].pc = "restore"
    /\ UNCHANGED <<now, env, nreq, pow, ident>>
    /\ LET t == task[p]
           fn == Dispatch(t.mode, t.site)
       IN  IF t.cache_data # NullObj
           THEN Finish(p, t, RETURN(t.cache_data))
           ELSE IF fn = "unknown"
           THEN Finish(p, t, RETURN([EmptyObj EXCEPT !["error"] =
                    (IF t.mode = "search" THEN <<"Unknown source: ">>
                     ELSE <<"Unknown site: ">>) \o t.site]))
           ELSE Suspend(p, [t EXCEPT !.fn = fn], "fetch", FirstFetch(fn, t.sid))

\* an upstream that never answers
PagesOf_pending(fn) == {}

\* what the first fetch of a function may bring back
PagesOf(fn) ==
    CASE fn = "search_douban" ->
            DoubanSearchPages \cup SearchGates \cup {NetworkError}
      [] fn \in {"search_imdb", "search_bangumi"} -> JsonPages
      [] fn = "gen_douban" ->
            DoubanPages \cup MorePages \cup DoubanGates \cup {NetworkError}
      [] fn = "gen_imdb" -> ImdbPages
      [] fn = "gen_bangumi" -> BangumiPages
      [] fn = "gen_steam" -> SteamPages \cup MorePages
      [] fn = "gen_indienova" -> IndienovaPages
      [] fn = "gen_epic" -> EpicPages
      [] OTHER -> {}

\* the adapter after its fetch, for the adapters without a challenge
Parse(fn, sid, resp) ==
    CASE fn \in {"search_imdb", "search_bangumi"} -> search_json_parse(resp)
      [] fn = "gen_imdb" -> gen_imdb_parse(sid, resp)
      [] fn = "gen_bangumi" -> gen_bangumi_parse(sid, resp)
      [] fn = "gen_steam" -> gen_steam_parse(sid, resp)
      [] fn = "gen_indienova" -> gen_indienova_parse(sid, resp)
      [] fn = "gen_epic" -> gen_epic_parse(sid, resp)

\* gen_douban and search_douban once solveDoubanChallenge has returned
Challenged(fn, sid, challenge, text, challenge_text) ==
    IF fn = "gen_douban"
    THEN gen_douban_challenged(sid, challenge, text, challenge_text)
    ELSE search_douban_parse(challenge, text, challenge_text)

\* the first fetch of the dispatched function settles; the function runs
\* on to its return, its throw or its next fetch
HandleFetched(p, resp) ==
    /\ task[p].pc = "fetch"
    /\ task[p].fn # "solver"
    /\ resp \in PagesOf(task[p].fn)
    /\ UNCHANGED <<now, env, nreq, pow, ident>>
    /\ LET t == [task[p] EXCEPT !.text = resp]
       IN  IF resp = NetworkError
           THEN Finish(p, t, THROW(<<"fetch failed">>))
           ELSE IF t.fn \notin {"gen_douban", "search_douban"}
           THEN Finish(p, t, Parse(t.fn, t.sid, resp))
           ELSE \E c \in {solveDoubanChallenge(t.ctx, resp)} :
                    IF c.kind = "throw" THEN Finish(p, t, c)
                    ELSE IF c.kind = "fetch"
                    THEN Suspend(p, [t EXCEPT !.locals = c.locals],
                                 "post", c.value)
                    ELSE \E r \in {Challenged(t.fn, t.sid, c.value, resp, NoPage)} :
                             IF r.kind = "fetch"
                             THEN Suspend(p, [t EXCEPT !.challenge = c.value],
                                          "refetch", r.value)
                             ELSE Finish(p, [t EXCEPT !.challenge = c.value], r)

\* gen_douban: the page fetched again with the cookies is there
HandleRefetched(p, resp) ==
    /\ task[p].pc = "refetch"
    /\ resp \in DoubanPages \cup {NetworkError}
    /\ UNCHANGED <<now, env, nreq, pow, ident>>
    /\ IF resp = NetworkError
       THEN Finish(p, task[p], THROW(<<"fetch failed">>))
       ELSE Finish(p, [task[p] EXCEPT !.text = resp],
                   gen_douban_parse(task[p].sid, resp))

\* the response has been written to the socket; the task is over
HandleReturn(p) ==
    /\ task[p].pc = "done"
    /\ task' = [task EXCEPT ![p] = IdleTask]
    /\ UNCHANGED <<memoryCache, now, env, nreq, pow, ident>>

\* time passes
Tick ==
    /\ now < MaxTicks * TickMs
    /\ now' = now + TickMs
    /\ UNCHANGED <<memoryCache, env, task, nreq, pow, ident>>


----------------------------------------------------------------------------
(* solveDoubanChallenge called on its own, and its two later steps *)

\* solveDoubanChallenge returns to its caller
SolverReturns(p, t, challenge, challenge_text) ==
    IF t.fn = "solver"
    THEN /\ task' = [task EXCEPT ![p] = [t EXCEPT
                !.pc = "done", !.challenge = challenge,
                !.challenge_text = challenge_text]]
         /\ UNCHANGED memoryCache
    ELSE LET r == Challenged(t.fn, t.sid, challenge, t.text, challenge_text)
             u == [t EXCEPT !.challenge = challenge,
                            !.challenge_text = challenge_text]
         IN  IF r.kind = "fetch"
             THEN Suspend(p, u, "refetch", r.value)
             ELSE Finish(p, u, r)

\* an exception leaves solveDoubanChallenge
SolverThrows(p, t, outcome) ==
    IF t.fn = "solver"
    THEN /\ task' = [task EXCEPT ![p] = [t EXCEPT !.pc = "done",
                                                  !.thrown = outcome.value]]
         /\ UNCHANGED memoryCache
    ELSE Finish(p, t, outcome)

\* solveDoubanChallenge(responseUrl, responseText) is called
SolverCall(p, ctx, responseText) ==
    /\ task[p].pc = "idle"
    /\ \A q \in Procs : q < p => task[q].pc # "idle"
    /\ nreq < MaxRequests
    /\ nreq' = nreq + 1
    /\ UNCHANGED <<now, env, pow, ident>>
    /\ LET t == [IdleTask EXCEPT !.ctx = ctx, !.fn = "solver",
                                 !.text = responseText]
           c == solveDoubanChallenge(ctx, responseText)
       IN  IF c.kind = "throw" THEN SolverThrows(p, t, c)
           ELSE IF c.kind = "fetch"
           THEN Suspend(p, [t EXCEPT !.locals = c.locals], "post", c.value)
           ELSE SolverReturns(p, t, c.value, NoPage)

\* the submission to sec.douban.com is answered
SolverSubmitted(p, submitResp) ==
    /\ task[p].pc = "post"
    /\ submitResp \in SubmitResponses \cup {NetworkError}
    /\ UNCHANGED <<now, env, nreq, pow, ident>>
    /\ LET t == task[p]
           c == solveDoubanChallenge_submitted(t.ctx, t.locals, submitResp)
       IN  IF submitResp = NetworkError
           THEN SolverThrows(p, t, THROW(<<"fetch failed">>))
           ELSE IF c.kind = "fetch"
           THEN Suspend(p, [t EXCEPT !.locals = c.locals], "get", c.value)
           ELSE SolverReturns(p, t, c.value, NoPage)

\* the page fetched with the session cookie is there
SolverFinal(p, finalResp) ==
    /\ task[p].pc = "get"
    /\ finalResp \in DoubanPages \cup DoubanSearchPages \cup {NetworkError}
    /\ UNCHANGED <<now, env, nreq, pow, ident>>
    /\ LET t == task[p]
       IN  IF finalResp = NetworkError
           THEN SolverThrows(p, t, THROW(<<"fetch failed">>))
           ELSE SolverReturns(p, t,
                    solveDoubanChallenge_final(t.locals).value, finalResp)

----------------------------------------------------------------------------
(* Specifications *)

NoTasks == [p \in Procs |-> IdleTask]
EmptyCache == [k \in {} |-> NoResponse]

\* the server: requests, the cache and the clock
Init ==
    /\ memoryCache = EmptyCache
    /\ now = 0
    /\ env \in Envs
    /\ task = NoTasks
    /\ nreq = 0
    /\ pow = PowIdle
    /\ ident = IdentOff

Next ==
    \/ \E p \in Procs : \E req \in Requests : HandleStart(p, req)
    \/ \E p \in Procs : HandleRestored(p)
    \/ \E p \in Procs : \E resp \in PagesOf(task[p].fn) :
            HandleFetched(p, resp)
    \/ \E p \in Procs : HandleReturn(p)
    \/ Tick

Spec == Init /\ [][Next]_vars

\* the server under a scheduler that resumes every task whose await has
\* settled: the promise of restoreFromKV resolves once PT_GEN_STORE.get
\* has read the Map, and every outbound fetch is answered or rejected
Fairness ==
    \A p \in Procs :
        /\ WF_vars(HandleRestored(p))
        /\ WF_vars(\E resp \in PagesOf(task[p].fn) : HandleFetched(p, resp))

SpecLive == Init /\ [][Next]_vars /\ Fairness

\* handle as it runs once URLSearchParams has append, the class that
\* lib/douban_challenge.js is written for: the steps of the solver after
\* the proof of work, and of gen_douban after the solver, can happen
NextPlatform ==
    \/ \E p \in Procs :
            \E req \in {BySid(<<"douban">>, <<"1">>), Search(UNDEF, <<"k">>),
                        BySid(<<"imdb">>, <<"1">>)} :
                HandleStartIn(p, req, "worker")
    \/ \E p \in Procs : HandleRestored(p)
    \/ \E p \in Procs : \E resp \in PagesOf(task[p].fn) :
            HandleFetched(p, resp)
    \/ \E p \in Procs : \E resp \in SubmitResponses \cup {NetworkError} :
            SolverSubmitted(p, resp)
    \/ \E p \in Procs :
            \E resp \in DoubanPages \cup DoubanSearchPages \cup {NetworkError} :
                SolverFinal(p, resp)
    \/ \E p \in Procs : \E resp \in DoubanPages \cup {NetworkError} :
            HandleRefetched(p, resp)
    \/ \E p \in Procs : HandleReturn(p)
    \/ Tick

SpecPlatform == Init /\ [][NextPlatform]_vars

\* solveChallenge, nonce by nonce
InitPow ==
    /\ memoryCache = EmptyCache
    /\ now = 0
    /\ env \in {[DISABLE_SEARCH |-> FALSE, APIKEY |-> UNDEF]}
    /\ task = NoTasks
    /\ nreq = 0
    /\ PowInit
    /\ ident = IdentOff

NextPow ==
    \/ \E cha \in Challenges : PowCall(cha)
    \/ PowIterate

SpecPow == InitPow /\ [][NextPow]_vars

\* the identification of a url, pattern by pattern
InitIdent ==
    /\ memoryCache = EmptyCache
    /\ now = 0
    /\ env \in {[DISABLE_SEARCH |-> FALSE, APIKEY |-> UNDEF]}
    /\ task = NoTasks
    /\ nreq = 0
    /\ pow = PowIdle
    /\ IdentInit

NextIdent ==
    \/ \E url_str \in UrlSamples : IdentStart(url_str)
    \/ IdentStep

SpecIdent == InitIdent /\ [][NextIdent]_vars

\* solveDoubanChallenge, in both copies
InitSolver ==
    /\ memoryCache = EmptyCache
    /\ now = 0
    /\ env \in {[DISABLE_SEARCH |-> FALSE, APIKEY |-> UNDEF]}
    /\ task = NoTasks
    /\ nreq = 0
    /\ pow = PowIdle
    /\ ident = IdentOff

NextSolver ==
    \/ \E p \in Procs : \E ctx \in {"server", "worker"} :
            \E text \in DoubanPages \cup MorePages \cup DoubanGates \cup MoreGates :
                SolverCall(p, ctx, text)
    \/ \E p \in Procs : \E resp \in SubmitResponses \cup {NetworkError} :
            SolverSubmitted(p, resp)
    \/ \E p \in Procs :
            \E resp \in DoubanPages \cup DoubanSearchPages \cup {NetworkError} :
                SolverFinal(p, resp)
    \/ \E p \in Procs : HandleReturn(p)

SpecSolver == InitSolver /\ [][NextSolver]_vars


----------------------------------------------------------------------------
(* Properties *)

Done(p) == task[p].pc = "done"

\* the keys a record has
Keys(obj) == {f \in Fields : obj[f] # ABSENT}

\* C1: a request whose cache key holds an unexpired entry is answered with
\* exactly the cached record (every key of the record, with its value, under
\* status 200; no other key beyond the envelope's own) and without any
\* outbound fetch: no gen_* or search_* function is called.
C1_CacheHitNoFetch ==
    \A p \in Procs :
        (Done(p) /\ task[p].seen.fresh) =>
            LET cached == JSON_parse(task[p].seen.value)
                body == task[p].response.body
            IN  /\ task[p].fetches = <<>>
                /\ task[p].fn = "none"
                /\ task[p].response.status = 200
                /\ \A f \in Keys(cached) : body[f] = cached[f]
                /\ Keys(body) \subseteq Keys(cached) \cup
                       {"success", "error", "format", "copyright", "version"}

C1_Witness ==
    \E p \in Procs :
        /\ Done(p)
        /\ task[p].seen.fresh
        /\ task[p].mode = "info"
        /\ task[p].response.body["site"] = <<"douban">>
        /\ now > 0

\* C2: the cache never holds a record that carries an error, and a request
\* that ends in an error has made no cache write, so that its key is left
\* as it was and the next identical request fetches again.
C2_NoErrorCached ==
    /\ \A k \in DOMAIN memoryCache :
            ~Truthy(JSON_parse(memoryCache[k].value)["error"])
    /\ \A p \in Procs :
            (Done(p) /\ Truthy(task[p].response.body["error"])) =>
                task[p].puts = <<>>

C2_Witness ==
    \E p \in Procs :
        /\ Done(p)
        /\ task[p].response.body["error"] = NONE_EXIST_ERROR
        /\ task[p].fetches # <<>>
        /\ task[p].cache_key \notin DOMAIN memoryCache

\* C3: whenever PT_GEN_STORE.put is called, the record stored is marked
\* success = true, in info mode and in search mode.
C3_PutOnlySuccess ==
    \A p \in Procs :
        \A i \in DOMAIN task[p].puts :
            JSON_parse(task[p].puts[i].value)["success"] = TRUE_

\* C4: an entry that has not expired is read-only: no step changes its
\* value or its expiry time, or removes it.
C4_EntryReadOnly ==
    [][\A k \in DOMAIN memoryCache :
            now <= memoryCache[k].expiry =>
                /\ k \in DOMAIN memoryCache'
                /\ memoryCache'[k] = memoryCache[k]]_vars

\* C5: every record returned to the caller: success = true comes with no
\* error, and success other than true comes with no populated format.
C5_RecordShape ==
    \A p \in Procs :
        (Done(p) /\ task[p].response.type = "json") =>
            LET body == task[p].response.body
            IN  /\ body["success"] = TRUE_ => ~Truthy(body["error"])
                /\ body["success"] # TRUE_ => ~Truthy(body["format"])

C5_Witness ==
    \E p, q \in Procs :
        /\ Done(p) /\ Done(q)
        /\ task[p].response.body["success"] = TRUE_
        /\ Truthy(task[p].response.body["format"])
        /\ task[q].response.body["success"] = FALSE_
        /\ Truthy(task[q].response.body["error"])


\* the predicate of the search: the digest of the challenge string followed
\* by the decimal nonce starts with four '0'
Solves(cha, n) ==
    SubSeq(sha512_hex(cha \o Decimal(n)), 1, 4) = <<"0", "0", "0", "0">>

\* C7: solveChallenge tries nonce 0, 1, 2, ... in increasing order (the
\* nonce in hand is the number of digests computed so far); a nonce it
\* returns satisfies the predicate and no smaller nonce does; and two calls
\* on the same challenge string end the same way, with the same nonce.
C7_LeastNonce ==
    /\ pow.pc = "loop" => pow.nonce = pow.attempts
    /\ \A i \in DOMAIN pow.results :
            pow.results[i].kind = "return" =>
                /\ Solves(pow.results[i].cha, pow.results[i].nonce)
                /\ \A m \in 0..(pow.results[i].nonce - 1) :
                        ~Solves(pow.results[i].cha, m)
    /\ \A i, j \in DOMAIN pow.results :
            pow.results[i].cha = pow.results[j].cha =>
                pow.results[i] = pow.results[j]

C7_Witness ==
    /\ Len(pow.results) = 2
    /\ pow.results[1].cha = pow.results[2].cha
    /\ pow.results[2].kind = "return"
    /\ pow.results[2].nonce > 1

\* C8: the loop computes at most 500,000 digests (IterationLimit of them
\* here) and, when none of them satisfies the predicate, throws the
\* timeout error instead of continuing.
C8_AtMostLimitAttempts ==
    /\ pow.attempts <= IterationLimit
    /\ \A i \in DOMAIN pow.results :
            /\ pow.results[i].attempts <= IterationLimit
            /\ pow.results[i].kind = "throw" =>
                    \A m \in 0..(IterationLimit - 1) : ~Solves(pow.results[i].cha, m)

\* C10: a url is matched against the patterns in the order douban, imdb,
\* bangumi, steam, indienova, epic; the first pattern that matches gives the
\* site and, by its capture group, the sid; the patterns after it are not
\* consulted; when none matches, all six were consulted and site and sid
\* stay undefined.
RegistrationOrder == <<"douban", "imdb", "bangumi", "steam", "indienova", "epic">>

Matching(url_str) ==
    {i \in DOMAIN RegistrationOrder :
        support_list(RegistrationOrder[i], url_str).matched}

C10_FirstMatchWins ==
    /\ ident.pc \in {"loop", "done"} =>
            /\ Len(ident.consulted) <= Len(RegistrationOrder)
            /\ ident.consulted = SubSeq(RegistrationOrder, 1, Len(ident.consulted))
    /\ ident.pc = "done" =>
            LET M == Matching(ident.url)
            IN  IF M = {}
                THEN /\ ident.site = UNDEF
                     /\ ident.sid = UNDEF
                     /\ ident.consulted = RegistrationOrder
                ELSE LET first == CHOOSE i \in M : \A j \in M : i <= j
                     IN  /\ ident.site = <<RegistrationOrder[first]>>
                         /\ ident.sid = support_list(RegistrationOrder[first],
                                                     ident.url).sid
                         /\ Len(ident.consulted) = first

C10_Witness ==
    /\ ident.pc = "done"
    /\ Matching(ident.url) = {1, 5}
    /\ ident.site = <<"douban">>
    /\ ident.sid = <<"1">>
    /\ ident.consulted = <<"douban">>


\* what a page gives solveDoubanChallenge: both gate markers, and the two
\* values the patterns must extract
HasGate(text) == "process(cha)" \in text.has /\ "id=\"cha\"" \in text.has
Extracted(text) == text.tok # ABSENT /\ text.cha # ABSENT

\* C6: called on a body that lacks a gate marker, or from which the token
\* or the challenge string cannot be extracted, solveDoubanChallenge
\* returns solved: false at once, without any outbound request, without a
\* second attempt; it issues requests only for a body with both markers
\* and both values.
C6_NoRequestWithoutGate ==
    \A p \in Procs :
        (task[p].fn = "solver" /\ task[p].pc # "idle") =>
            /\ (~HasGate(task[p].text) \/ ~Extracted(task[p].text)) =>
                    /\ task[p].pc = "done"
                    /\ task[p].fetches = <<>>
                    /\ task[p].thrown = UNDEF
                    /\ task[p].challenge.solved = FALSE
                    /\ task[p].challenge.error =
                            IF HasGate(task[p].text)
                            THEN <<"Could not extract challenge parameters">>
                            ELSE UNDEF
            /\ task[p].fetches # <<>> =>
                    HasGate(task[p].text) /\ Extracted(task[p].text)

C6_Witness ==
    \E p, q \in Procs :
        /\ task[p].fn = "solver" /\ Done(p)
        /\ HasGate(task[p].text) /\ ~Extracted(task[p].text)
        /\ task[p].fetches = <<>>
        /\ task[p].challenge.error = <<"Could not extract challenge parameters">>
        /\ task[q].fn = "solver"
        /\ Len(task[q].fetches) = 2

\* the anticipated conditions a request can meet after its first fetch:
\* the structured-data block or the JSON payload of a page that is neither
\* a not-found page nor a gate is absent or malformed; the proof of work
\* of a gate finds no nonce within the limit
ParseFailure(t) ==
    /\ t.text.status = 200
    /\ t.text.has = {}
    /\ CASE t.fn \in {"gen_douban", "gen_imdb"} -> t.text.ld \in {"none", "bad"}
         [] t.fn \in {"search_douban", "search_imdb", "search_bangumi", "gen_epic"} ->
                t.text.json = "bad"
         [] OTHER -> FALSE

ChallengeTimeout(t) ==
    /\ t.fn \in {"gen_douban", "search_douban"}
    /\ HasGate(t.text) /\ Extracted(t.text)
    /\ \A m \in 0..IterationLimit : ~Solves(t.text.cha, m)

\* C9: a request that meets a parse failure or a challenge timeout is
\* answered on the normal path, status 200 with {success: false, error};
\* no exception reaches the catch clause of handle (status 500).
C9_AnticipatedAsData ==
    \A p \in Procs :
        (/\ Done(p)
         /\ task[p].fn # "solver"
         /\ Len(task[p].fetches) = 1
         /\ ParseFailure(task[p]) \/ ChallengeTimeout(task[p])) =>
            /\ task[p].thrown = UNDEF
            /\ task[p].response.status = 200
            /\ task[p].response.body["success"] = FALSE_
            /\ Truthy(task[p].response.body["error"])


\* a request for a record whose source cannot be identified (the url
\* matches no pattern), whose site is none of the six, or whose sid is empty
Unsupported(req) ==
    /\ req.query
    /\ ~Truthy(req.search)
    /\ IF Truthy(req.url)
       THEN Matching(req.url) = {}
       ELSE \/ req.site \notin {<<s>> : s \in SiteNames}
            \/ ~Truthy(req.sid)

\* C11: a request whose source cannot be identified or is unknown, or whose
\* subject id is empty, ends in a failed record (success false, an error)
\* and no outbound fetch is made for it.
C11_UnsupportedFails ==
    \A p \in Procs :
        (Done(p) /\ Unsupported(task[p].req) /\ task[p].response.status # 403) =>
            /\ task[p].fetches = <<>>
            /\ task[p].fn = "none"
            /\ task[p].response.body["success"] = FALSE_
            /\ Truthy(task[p].response.body["error"])

\* C12: with DISABLE_SEARCH set, a search request is answered with the
\* fixed error "this ptgen disallow search"; no search function is called,
\* no fetch is made, and the cache is neither read nor written.
C12_SearchDisabled ==
    \A p \in Procs :
        (/\ Done(p)
         /\ env.DISABLE_SEARCH
         /\ task[p].req.query
         /\ Truthy(task[p].req.search)
         /\ task[p].response.status # 403) =>
            /\ task[p].response.status = 200
            /\ task[p].response.body["error"] = <<"this ptgen disallow search">>
            /\ task[p].response.body["success"] = FALSE_
            /\ task[p].fn = "none"
            /\ task[p].fetches = <<>>
            /\ task[p].reads = 0
            /\ task[p].puts = <<>>

C12_Witness ==
    \E p \in Procs :
        /\ Done(p)
        /\ env.DISABLE_SEARCH
        /\ task[p].req.search = <<"k">>
        /\ task[p].req.source = <<"imdb">>
        /\ task[p].response.body["error"] = <<"this ptgen disallow search">>
        /\ memoryCache # EmptyCache

\* C13: an exception thrown while a request is handled (by a fetch, a
\* parser or the solver) ends at the catch clause of handle: the response
\* has status 500, the error "Internal Error: " followed by the message of
\* the exception, and a debug object with the message, a timestamp and the
\* method and url of the request; nothing is written to the cache.  And a
\* status 500 is the answer to an exception only.
C13_ExceptionIs500 ==
    \A p \in Procs :
        (Done(p) /\ task[p].fn # "solver") =>
            /\ task[p].thrown # UNDEF =>
                    LET body == task[p].response.body
                        debug == body["debug"]
                    IN  /\ task[p].response.status = 500
                        /\ body["error"] = <<"Internal Error: ">> \o task[p].thrown
                        /\ body["success"] = FALSE_
                        /\ {"message:", "timestamp:", "method", "url"}
                                \subseteq {debug[i] : i \in DOMAIN debug}
                        /\ task[p].puts = <<>>
            /\ task[p].response.status = 500 => task[p].thrown # UNDEF

C13_Witness ==
    \E p, q \in Procs :
        /\ Done(p) /\ Done(q)
        /\ task[p].fn = "gen_imdb"
        /\ task[p].thrown = <<"Cannot read properties of null (reading 'replace')">>
        /\ task[q].fn = "gen_douban"
        /\ task[q].thrown = <<"Challenge timeout">>
        /\ task[q].response.status = 500

\* the nonces the search can return for a challenge string
Nonces(cha) == {n \in 0..IterationLimit : Solves(cha, n)}

\* a call of solveDoubanChallenge on a gate page with its token and its
\* challenge string, whose proof of work produces a nonce
PowDone(t) ==
    /\ t.fn = "solver"
    /\ t.pc # "idle"
    /\ HasGate(t.text) /\ Extracted(t.text)
    /\ Nonces(t.text.cha) # {}

\* C14: once the proof of work has produced a nonce, the solver issues one
\* POST to https://sec.douban.com/c with tok, cha, sol and red as a form and
\* redirect: manual; a GET follows only the answer to that POST: none when
\* the answer has no set-cookie header (the solver then returns solved:
\* false with the no-cookies error), otherwise one GET carrying the cookie.
C14_PostThenGet ==
    \A p \in Procs :
        PowDone(task[p]) =>
            LET t == task[p]
                f == t.fetches
                red == IF t.text.red # ABSENT THEN t.text.red
                       ELSE <<"https://movie.douban.com/">>
                sol == CHOOSE n \in Nonces(t.text.cha) :
                            \A m \in Nonces(t.text.cha) : n <= m
            IN  /\ Len(f) \in {1, 2}
                /\ f[1].url = <<"https://sec.douban.com/c">>
                /\ f[1].method = "POST"
                /\ f[1].redirect = "manual"
                /\ f[1].body = <<"tok", "=">> \o t.text.tok
                                \o <<"&", "cha", "=">> \o t.text.cha
                                \o <<"&", "sol", "=">> \o Decimal(sol)
                                \o <<"&", "red", "=">> \o red
                /\ Len(f) = 2 =>
                        /\ f[2].method = "GET"
                        /\ Truthy(f[2].cookie)
                        /\ f[2].url \in {red, <<"loc">>}
                /\ (t.pc = "done" /\ t.thrown = UNDEF) =>
                        /\ t.challenge.solved <=> Len(f) = 2
                        /\ ~t.challenge.solved =>
                                t.challenge.error \in
                                    {<<"No cookies received">>,
                                     <<"No cookies received from challenge submission">>}

C16_SolverErrorIsTheResult ==
    \A p \in Procs :
        (/\ Done(p)
         /\ task[p].fn \in {"gen_douban", "search_douban"}
         /\ task[p].thrown = UNDEF
         /\ ~task[p].challenge.solved
         /\ Truthy(task[p].challenge.error)) =>
                task[p].response_data["error"] = task[p].challenge.error

\* the tokens of a description
Tokens(descr) == { descr[i] : i \in DOMAIN descr }

\* the labels under which the formatters render each field of a page
LabelsOf ==
    [poster |-> {"[img]"},
     name |-> {"title:", "Title:", "name:"},
     extra |-> {"year:", "Date Published:", "[b]Story: [/b]", "about:"},
     imdb |-> {"imdb link:"}]

Formatted(p) ==
    /\ Done(p)
    /\ task[p].fn \in {"gen_douban", "gen_imdb", "gen_bangumi", "gen_steam",
                       "gen_indienova", "gen_epic"}
    /\ task[p].thrown = UNDEF
    /\ task[p].response_data["success"] = TRUE_
    /\ ~task[p].seen.fresh

\* C17: in the description a formatter renders, a labelled line is there
\* only if its field is non-empty: a page without a year, a name, a poster
\* or an imdb id gives a description without that label; and the
\* description is a function of the page alone.
C17_EmptyFieldNoLine ==
    \A p \in Procs :
        Formatted(p) =>
            /\ \A k \in DOMAIN LabelsOf :
                    ~Truthy(task[p].text.f[k]) =>
                        Tokens(task[p].response_data["format"]) \cap LabelsOf[k] = {}
            /\ \A q \in Procs :
                    (/\ Formatted(q) /\ task[q].fn = task[p].fn
                     /\ task[q].sid = task[p].sid
                     /\ task[q].text = task[p].text) =>
                        task[q].response_data["format"]
                            = task[p].response_data["format"]

\* p fetched its record and stored it: it read the cache, found nothing
\* fresh and later put its value
Wrote(p) ==
    /\ Done(p)
    /\ task[p].thrown = UNDEF
    /\ ~task[p].seen.fresh
    /\ Len(task[p].puts) = 1

\* p and q were in flight together on one key: neither saw what the other
\* wrote, and both wrote within the lifetime of one entry
Concurrent(p, q) ==
    /\ p # q
    /\ Wrote(p) /\ Wrote(q)
    /\ task[p].cache_key = task[q].cache_key
    /\ task[p].puts[1].at = task[q].puts[1].at

\* C18: two requests for one cache key that are in flight together write
\* the same value under that key, so that the entry left in the cache is
\* the value of either.
C18_WritersAgree ==
    \A p, q \in Procs :
        Concurrent(p, q) =>
            /\ task[p].puts[1].value = task[q].puts[1].value
            /\ task[p].cache_key \in DOMAIN memoryCache =>
                    memoryCache[task[p].cache_key].value = task[p].puts[1].value

\* C19: in the JSON response to an info or a search request, success is
\* true exactly when error is null or absent.
C19_SuccessIffNoError ==
    \A p \in Procs :
        (/\ Done(p)
         /\ task[p].mode \in {"info", "search"}
         /\ task[p].response.type = "json") =>
            (task[p].response.body["success"] = TRUE_
                <=> task[p].response.body["error"] \in {NULL, ABSENT, UNDEF})

\* handle has been entered and has not returned
InFlight(p) == task[p].pc \notin {"idle", "done"}

\* the responses handle can return
Resolved(p) ==
    /\ task[p].response.type = "json"
    /\ task[p].response.status = 200
    /\ ~Truthy(task[p].response.body["error"])
Failed(p) ==
    /\ task[p].response.type = "json"
    /\ task[p].response.status \in {200, 403}
    /\ Truthy(task[p].response.body["error"])
    /\ task[p].thrown = UNDEF
InternalError500(p) ==
    /\ task[p].response.type = "json"
    /\ task[p].response.status = 500
    /\ task[p].thrown # UNDEF
    /\ task[p].response.body["error"] = <<"Internal Error: ">> \o task[p].thrown
IndexPage(p) ==
    /\ task[p].response.type = "html"
    /\ task[p].response.status = 200

ExactlyOne(S) == Cardinality({b \in S : b[2]}) = 1

=============================================================================
